---------------------------- MODULE Spec2Model ----------------------------
(***************************************************************************)
(* Model of pyDash's backend (src/app.py): the closure state io_cache of   *)
(* main() and the three handlers exposed to the frontend,                  *)
(* get_system_stats, get_processes and terminate_process.                  *)
(*                                                                         *)
(* Numbers.  Python floats and ints are modelled as exact rationals        *)
(* <<n, d>> in lowest terms with d > 0 (Python's 0 == 0.0 becomes equality *)
(* of <<0, 1>>).  Python's None is the empty tuple <<>>.  Timestamps       *)
(* (time.time()) are integer ticks and byte counters are integers.         *)
(***************************************************************************)
EXTENDS Integers, Sequences, FiniteSets, TLC

\* ------------------------------------------------------------------ bounds
\* time.time() returns a tick in 0..MaxTime
MaxTime == 2
\* read_bytes and write_bytes each range over 0..MaxBytes
MaxBytes == 1

\* --------------------------------------------------------- program constants
\* processes[:50]
TopN == 50
\* vals[1] * 1024 * 1024
MiB == 1048576

\* ------------------------------------------------------------------ numbers
None == <<>>

Abs(n) == IF n < 0 THEN -n ELSE n

RECURSIVE GCD(_, _)
GCD(a, b) == IF b = 0 THEN a ELSE GCD(b, a % b)

\* the rational n/d (d # 0) in lowest terms with a positive denominator
Rat(n, d) ==
    LET s == IF d < 0 THEN -1 ELSE 1
        g == GCD(Abs(n), Abs(d))
    IN  <<(s * n) \div g, (s * d) \div g>>

Num(n) == <<n, 1>>
Zero == <<0, 1>>

\* Python's a / b on numbers (b # 0)
TrueDiv(a, b) == Rat(a[1] * b[2], a[2] * b[1])
\* Python's a * b
Mul(a, b) == Rat(a[1] * b[1], a[2] * b[2])
\* Python's a < b
Less(a, b) == a[1] * b[2] < b[1] * a[2]

\* TRUE of every value: as the test of an IF it has v computed before the
\* branch is entered, which keeps the evaluation of a long loop shallow
Evaluated(v) == v = v

\* ------------------------------------------------------------- process data
\* psutil.cpu_count() or 1; cores is None or <<n>>
CpuCount(cores) == IF cores = None \/ cores[1] = 0 THEN 1 ELSE cores[1]

IdleNames == {"System Idle Process", "Idle"}

\* io_rate of lines 178-181: the cached entry prev against this reading
\* (variant: a counter that went down gives rate 0)
RateOfClampM(total_io, prev, current_time) ==
    LET time_diff == current_time - prev.time
        delta == total_io - prev.bytes
    IN  IF time_diff > 0
        THEN Rat(IF delta < 0 THEN 0 ELSE delta, time_diff)
        ELSE Zero

\* (variant: only a zero time delta is guarded)
RateOfAnyDeltaM(total_io, prev, current_time) ==
    LET time_diff == current_time - prev.time
    IN  IF time_diff # 0 THEN Rat(total_io - prev.bytes, time_diff) ELSE Zero

RateOf(total_io, prev, current_time) ==
    LET time_diff == current_time - prev.time
    IN  IF time_diff > 0 THEN Rat(total_io - prev.bytes, time_diff) ELSE Zero

\* io_cache[pid] = {'bytes': total_io, 'time': current_time} of line 184
\* (variant: only an existing entry is written)
CacheSetM(cache, pid, total_io, current_time) ==
    [k \in DOMAIN cache |->
        IF k = pid THEN [bytes |-> total_io, time |-> current_time]
        ELSE cache[k]]

CacheSet(cache, pid, total_io, current_time) ==
    [k \in DOMAIN cache \cup {pid} |->
        IF k = pid THEN [bytes |-> total_io, time |-> current_time]
        ELSE cache[k]]

\* (io_rate, io_cache) after lines 171-186 for the reading pinfo
\* (variant: a cached pid's entry is written only when time has elapsed)
IoRateM(pinfo, cache, current_time) ==
    IF pinfo.io_counters # None
    THEN LET total_io == pinfo.io_counters[1].read_bytes
                         + pinfo.io_counters[1].write_bytes
         IN  [io_rate |-> IF pinfo.pid \in DOMAIN cache
                          THEN RateOf(total_io, cache[pinfo.pid], current_time)
                          ELSE Zero,
              cache |-> IF pinfo.pid \in DOMAIN cache
                           /\ current_time - cache[pinfo.pid].time <= 0
                        THEN cache
                        ELSE CacheSet(cache, pinfo.pid, total_io, current_time)]
    ELSE [io_rate |-> Zero, cache |-> cache]

IoRate(pinfo, cache, current_time) ==
    IF pinfo.io_counters # None
    THEN LET total_io == pinfo.io_counters[1].read_bytes
                         + pinfo.io_counters[1].write_bytes
         IN  [io_rate |-> IF pinfo.pid \in DOMAIN cache
                          THEN RateOf(total_io, cache[pinfo.pid], current_time)
                          ELSE Zero,
              cache |-> CacheSet(cache, pinfo.pid, total_io, current_time)]
    ELSE [io_rate |-> Zero, cache |-> cache]

\* ---------------------------------------------------------------- GPU probe
(***************************************************************************)
(* The text nvidia-smi prints is a sequence of lines, a line the sequence  *)
(* of its comma-separated fields, a blank line the empty sequence.  A      *)
(* field is [kind, val]: kind "int" is an integer literal, "dec" a decimal *)
(* literal that is no integer literal, "junk" anything else (a unit        *)
(* suffix, "[N/A]").  A query is [ok, lines]; ok = FALSE is an invocation  *)
(* that raised (check_output's CalledProcessError or OSError).             *)
(***************************************************************************)
\* int(x) raises ValueError unless x is an integer literal
IntOk(f) == f.kind = "int"
\* float(x) raises ValueError on anything that is no number
FloatOk(f) == f.kind \in {"int", "dec"}

\* gpu_map after the lines 1..n of the output were read (lines 145-154)
\* (variant: a row of more than two columns is read by its first two)
RECURSIVE GpuRowsM(_, _)
GpuRowsM(lines, n) ==
    IF n = 0 THEN <<>>
    ELSE LET m == GpuRowsM(lines, n - 1)
             parts == lines[n]
         IN  IF parts # <<>> /\ Len(parts) >= 2
                /\ IntOk(parts[1]) /\ FloatOk(parts[2])
             THEN LET pid == parts[1].val[1]
                  IN  [k \in DOMAIN m \cup {pid} |->
                         IF k = pid THEN parts[2].val ELSE m[k]]
             ELSE m

RECURSIVE GpuRows(_, _)
GpuRows(lines, n) ==
    IF n = 0 THEN <<>>
    ELSE LET m == GpuRows(lines, n - 1)
             parts == lines[n]
         IN  IF parts # <<>> /\ Len(parts) = 2
                /\ IntOk(parts[1]) /\ FloatOk(parts[2])
             THEN LET pid == parts[1].val[1]
                  IN  [k \in DOMAIN m \cup {pid} |->
                         IF k = pid THEN parts[2].val ELSE m[k]]
             ELSE m

\* gpu_map of one pass (lines 137-156); smi is the tool as this call finds it
GpuMap(smi) ==
    IF smi.present
    THEN IF smi.apps.ok
         THEN GpuRows(smi.apps.lines, Len(smi.apps.lines))
         ELSE <<>>
    ELSE <<>>

\* gpu_stats of line 80
GpuDefault ==
    [percent |-> Zero, name |-> "N/A",
     memory |-> [used |-> Zero, total |-> Zero]]

\* (variant: the name is kept when the stats query fails)
GpuStatsM(smi) ==
    IF smi.present /\ smi.name.ok
    THEN LET gpu_name == IF smi.name.lines = <<>> THEN ""
                         ELSE smi.name.lines[1]
             line == IF smi.stats.lines = <<>> THEN <<>>
                     ELSE smi.stats.lines[1]
         IN  IF smi.stats.ok /\ line # <<>>
                /\ (\A i \in DOMAIN line : FloatOk(line[i]))
                /\ Len(line) >= 3
             THEN [percent |-> line[1].val,
                   name |-> gpu_name,
                   memory |-> [total |-> Mul(line[2].val, Num(MiB)),
                               used |-> Mul(line[3].val, Num(MiB))]]
             ELSE [GpuDefault EXCEPT !.name = gpu_name]
    ELSE GpuDefault

\* gpu_stats of get_system_stats (lines 79-106).  The name query's first
\* line is the name; the stats query's first line is split and every field
\* converted by float(); any exception leaves the default.
GpuStats(smi) ==
    IF smi.present /\ smi.name.ok /\ smi.stats.ok
    THEN LET gpu_name == IF smi.name.lines = <<>> THEN ""
                         ELSE smi.name.lines[1]
             line == IF smi.stats.lines = <<>> THEN <<>>
                     ELSE smi.stats.lines[1]
         IN  IF line # <<>> /\ (\A i \in DOMAIN line : FloatOk(line[i]))
                /\ Len(line) >= 3
             THEN [percent |-> line[1].val,
                   name |-> gpu_name,
                   memory |-> [total |-> Mul(line[2].val, Num(MiB)),
                               used |-> Mul(line[3].val, Num(MiB))]]
             ELSE GpuDefault
    ELSE GpuDefault

\* get_system_stats() (lines 68-123) in the environment env = [host, smi]:
\* host holds psutil's cpu_percent, virtual_memory and disk_usage('/')
GetSystemStatsOf(env) ==
    [cpu |-> env.host.cpu,
     memory |-> [total |-> env.host.memory.total,
                 available |-> env.host.memory.available,
                 percent |-> env.host.memory.percent,
                 used |-> env.host.memory.used],
     disk |-> [total |-> env.host.disk.total,
               used |-> env.host.disk.used,
               free |-> env.host.disk.free,
               percent |-> env.host.disk.percent],
     gpu |-> GpuStats(env.smi)]

\* terminate_process(pid) (lines 211-220); outcome is what psutil does with
\* the pid: "ok", or the exception Process(pid) or terminate() raises
TerminateProcessOf(pid, outcome) ==
    IF outcome = "ok"
    THEN [success |-> TRUE, message |-> <<"Process", pid, "terminated.">>]
    ELSE [success |-> FALSE, message |-> <<outcome>>]

\* gpu_map.get(pid, 0)
\* (variant: gpu_map.get(pid), with no default)
GpuGetM(gpu_map, pid) == IF pid \in DOMAIN gpu_map THEN gpu_map[pid] ELSE None

GpuGet(gpu_map, pid) == IF pid \in DOMAIN gpu_map THEN gpu_map[pid] ELSE Zero

\* ----------------------------------------------------------- get_processes
\* the name filter of line 164
\* (variant: only 'Idle' is filtered)
IsIdleM(name) == name = "Idle"

IsIdle(name) == name \in IdleNames

\* pinfo['cpu_percent'] after lines 168-169
NormCpu(cpu_percent, cpu_count) ==
    IF cpu_percent # None THEN TrueDiv(cpu_percent, Num(cpu_count))
    ELSE None

(***************************************************************************)
(* The loop of lines 158-193 over procs[lo..hi], the processes as          *)
(* psutil.process_iter yields them, entered with the list `processes` and  *)
(* the cache `cache`.  A reading is [pid, name, cpu_percent,               *)
(* memory_percent, io_counters, raises]; raises = TRUE is a process whose  *)
(* proc.info raises NoSuchProcess, AccessDenied or ZombieProcess.  The     *)
(* iterations run left to right; the range is halved only to keep the      *)
(* evaluation shallow.  The result is [processes, cache].                  *)
(***************************************************************************)
\* pinfo as it is appended at line 191
Pinfo(proc, io_rate, cpu_count, gpu_map) ==
    [pid |-> proc.pid,
     name |-> proc.name,
     cpu_percent |-> NormCpu(proc.cpu_percent, cpu_count),
     memory_percent |-> proc.memory_percent,
     io_counters |-> proc.io_counters,
     disk_io |-> io_rate,
     gpu_memory |-> GpuGet(gpu_map, proc.pid)]

\* one iteration: lines 159-193 for the reading proc
\* (variant: a process whose details cannot be read is sampled all the same)
SampleM(proc, acc, current_time, cpu_count, gpu_map) ==
    IF IsIdle(proc.name) THEN acc
    ELSE LET io == IoRate(proc, acc.cache, current_time)
         IN  [processes |->
                 Append(acc.processes,
                        Pinfo(proc, io.io_rate, cpu_count, gpu_map)),
              cache |-> io.cache]

Sample(proc, acc, current_time, cpu_count, gpu_map) ==
    IF proc.raises \/ IsIdle(proc.name) THEN acc
    ELSE LET io == IoRate(proc, acc.cache, current_time)
         IN  [processes |->
                 Append(acc.processes,
                        Pinfo(proc, io.io_rate, cpu_count, gpu_map)),
              cache |-> io.cache]

RECURSIVE Enumerate(_, _, _, _, _, _, _)
Enumerate(procs, lo, hi, acc, current_time, cpu_count, gpu_map) ==
    IF lo > hi THEN acc
    ELSE IF lo = hi
    THEN Sample(procs[lo], acc, current_time, cpu_count, gpu_map)
    ELSE LET mid == (lo + hi) \div 2
             left == Enumerate(procs, lo, mid, acc, current_time, cpu_count,
                               gpu_map)
         IN  IF Evaluated(left)
             THEN Enumerate(procs, mid + 1, hi, left, current_time,
                            cpu_count, gpu_map)
             ELSE left

\* current_pids of line 196
\* (variant: only the pids sampled with I/O counters)
CurrentPidsM(processes) ==
    {processes[i].pid :
        i \in {j \in DOMAIN processes : processes[j].io_counters # None}}

CurrentPids(processes) == {processes[i].pid : i \in DOMAIN processes}

\* the dict comprehension of line 197
\* (variant: nothing is cleaned up)
PruneM(cache, current_pids) == cache

Prune(cache, current_pids) ==
    [k \in DOMAIN cache \cap current_pids |-> cache[k]]

\* key_map.get(sort_by, 'cpu_percent') of lines 200-206
\* (variant: unknown keys select memory_percent)
SortKeyM(sort_by) ==
    CASE sort_by = "cpu" -> "cpu_percent"
      [] sort_by = "memory" -> "memory_percent"
      [] sort_by = "disk" -> "disk_io"
      [] sort_by = "gpu" -> "gpu_memory"
      [] OTHER -> "memory_percent"

SortKey(sort_by) ==
    CASE sort_by = "cpu" -> "cpu_percent"
      [] sort_by = "memory" -> "memory_percent"
      [] sort_by = "disk" -> "disk_io"
      [] sort_by = "gpu" -> "gpu_memory"
      [] OTHER -> "cpu_percent"

\* the sort's key function, p.get(sort_key) or 0
KeyOf(p, sort_key) == IF p[sort_key] = None THEN Zero ELSE p[sort_key]

\* p put into the descending list s behind every entry whose key is not
\* smaller: list.sort is stable, also with reverse=True
\* (variant: p is put before the entries of equal key)
RECURSIVE InsertDescM(_, _, _)
InsertDescM(s, p, sort_key) ==
    IF s = <<>> \/ Less(KeyOf(p, sort_key), KeyOf(s[Len(s)], sort_key))
    THEN Append(s, p)
    ELSE Append(InsertDescM(SubSeq(s, 1, Len(s) - 1), p, sort_key), s[Len(s)])

RECURSIVE InsertDesc(_, _, _)
InsertDesc(s, p, sort_key) ==
    IF s = <<>> \/ ~Less(KeyOf(s[Len(s)], sort_key), KeyOf(p, sort_key))
    THEN Append(s, p)
    ELSE Append(InsertDesc(SubSeq(s, 1, Len(s) - 1), p, sort_key), s[Len(s)])

\* processes.sort(key=..., reverse=True) of line 208: processes[lo..hi]
\* put one by one, left to right, into the sorted list s
RECURSIVE SortDesc(_, _, _, _, _)
SortDesc(processes, lo, hi, s, sort_key) ==
    IF lo > hi THEN s
    ELSE IF lo = hi THEN InsertDesc(s, processes[lo], sort_key)
    ELSE LET mid == (lo + hi) \div 2
             left == SortDesc(processes, lo, mid, s, sort_key)
         IN  IF Evaluated(left)
             THEN SortDesc(processes, mid + 1, hi, left, sort_key)
             ELSE left

\* processes[:50] of line 209
\* (variant: no truncation)
TopM(s) == s

Top(s) == SubSeq(s, 1, IF Len(s) < TopN THEN Len(s) ELSE TopN)

(***************************************************************************)
(* get_processes(sort_by) run on the cache `cache` with the environment    *)
(* env = [now, cores, smi, procs, fails] it reads: time.time(),            *)
(* psutil.cpu_count(), the GPU tool and the process table.  procs are the  *)
(* processes psutil.process_iter yields; fails = TRUE is an enumeration    *)
(* that raises after them (an OSError from the process table) instead of   *)
(* ending: nothing in get_processes catches it, so the call raises from    *)
(* inside the loop, with the cache as the iterations so far left it.  The  *)
(* result is [raised, ret, io_cache]: whether the call raised, the         *)
(* returned list and the cache the call leaves.                            *)
(***************************************************************************)
\* (variant: a failed invocation of the GPU tool is not caught)
GetProcessesOfM(cache, sort_by, env) ==
    LET gpu_map == GpuMap(env.smi)
        loop == Enumerate(env.procs, 1, Len(env.procs),
                          [processes |-> <<>>, cache |-> cache], env.now,
                          CpuCount(env.cores), gpu_map)
        sorted == SortDesc(loop.processes, 1, Len(loop.processes), <<>>,
                           SortKey(sort_by))
    IN  IF env.smi.present /\ ~env.smi.apps.ok
        THEN [raised |-> TRUE, ret |-> <<>>, io_cache |-> cache]
        ELSE IF env.fails
        THEN [raised |-> TRUE, ret |-> <<>>, io_cache |-> loop.cache]
        ELSE [raised |-> FALSE, ret |-> Top(sorted),
              io_cache |-> Prune(loop.cache, CurrentPids(loop.processes))]

GetProcessesOf(cache, sort_by, env) ==
    LET gpu_map == GpuMap(env.smi)
        loop == Enumerate(env.procs, 1, Len(env.procs),
                          [processes |-> <<>>, cache |-> cache], env.now,
                          CpuCount(env.cores), gpu_map)
        sorted == SortDesc(loop.processes, 1, Len(loop.processes), <<>>,
                           SortKey(sort_by))
    IN  IF env.fails
        THEN [raised |-> TRUE, ret |-> <<>>, io_cache |-> loop.cache]
        ELSE [raised |-> FALSE, ret |-> Top(sorted),
              io_cache |-> Prune(loop.cache, CurrentPids(loop.processes))]


\* -------------------------------------------------------------- environment
(***************************************************************************)
(* What a call reads from outside the program.  A pass may find any clock  *)
(* value (time.time() is the wall clock and may step back), any counters   *)
(* and any set of live processes; psutil.process_iter yields them in       *)
(* ascending pid order.                                                    *)
(***************************************************************************)
Times == 0..MaxTime

IoReadings ==
    {None} \cup {<<[read_bytes |-> r, write_bytes |-> w]>> :
                    r \in 0..MaxBytes, w \in 0..MaxBytes}

Names == {"python"} \cup IdleNames

Reading(pid, name, cpu, mem, io) ==
    [pid |-> pid, name |-> name, cpu_percent |-> cpu, memory_percent |-> mem,
     io_counters |-> io, raises |-> FALSE]

\* a process that is gone, or denied, by the time its details are read
Vanished(pid) ==
    [pid |-> pid, name |-> "python", cpu_percent |-> None,
     memory_percent |-> None, io_counters |-> None, raises |-> TRUE]

\* a machine with more than TopN processes: pids 3..TopN+2, all alike
Crowd == [i \in 1..TopN |-> Reading(i + 2, "svchost", Num(2), Num(1), None)]

\* the GPU tool: not on the PATH, or printing one row per compute process
Field(kind, n, d) == [kind |-> kind, val |-> Rat(n, d)]
Query(ok, lines) == [ok |-> ok, lines |-> lines]
Failed == Query(FALSE, <<>>)
NoSmi == [present |-> FALSE, name |-> Failed, stats |-> Failed,
          apps |-> Failed]
Smi(name_q, stats_q, apps_q) ==
    [present |-> TRUE, name |-> name_q, stats |-> stats_q, apps |-> apps_q]

NameRows == Query(TRUE, <<"NVIDIA T4">>)
\* "14, 8, 2"
StatsRows ==
    Query(TRUE, <<<<Field("int", 14, 1), Field("int", 8, 1),
                    Field("int", 2, 1)>>>>)
\* "1, 3" and "4, 1.5"
AppsRows ==
    Query(TRUE, <<<<Field("int", 1, 1), Field("int", 3, 1)>>,
                  <<Field("int", 4, 1), Field("dec", 3, 2)>>>>)

SmiTools == {NoSmi, Smi(NameRows, StatsRows, AppsRows)}

\* a junk field: "[N/A]", or a number with a unit suffix
Junk == [kind |-> "junk", val |-> None]
\* the tool prints nothing
EmptyOut == Query(TRUE, <<>>)
\* "14, 8": a column is missing
ShortStats == Query(TRUE, <<<<Field("int", 14, 1), Field("int", 8, 1)>>>>)
\* "[N/A], 8, 2"
JunkStats == Query(TRUE, <<<<Junk, Field("int", 8, 1), Field("int", 2, 1)>>>>)
\* "14, 8, 2, 5": a column too many
LongStats ==
    Query(TRUE, <<<<Field("int", 14, 1), Field("int", 8, 1),
                    Field("int", 2, 1), Field("int", 5, 1)>>>>)
\* two GPUs, "14, 8, 2" and "[N/A], 8"
TwoStats == Query(TRUE, <<StatsRows.lines[1], <<Junk, Field("int", 8, 1)>>>>)

\* the tool present, with a name or stats query that fails or prints
\* something else than one row of three numbers
StatsTools ==
    {Smi(Failed, StatsRows, Failed), Smi(EmptyOut, StatsRows, Failed),
     Smi(NameRows, TwoStats, Failed)}
    \cup {Smi(NameRows, q, Failed) :
             q \in {Failed, EmptyOut, ShortStats, JunkStats, LongStats}}

\* "1, 3, 7" and "2, 5": the first row has a column too many
MixedApps ==
    Query(TRUE, <<<<Field("int", 1, 1), Field("int", 3, 1),
                    Field("int", 7, 1)>>,
                  <<Field("int", 2, 1), Field("int", 5, 1)>>>>)
\* "[N/A], 3", "1, [N/A]", "1.5, 3" and "2": no row is a pid and a number
JunkApps ==
    Query(TRUE, <<<<Junk, Field("int", 3, 1)>>,
                  <<Field("int", 1, 1), Junk>>,
                  <<Field("dec", 3, 2), Field("int", 3, 1)>>,
                  <<Field("int", 2, 1)>>>>)
\* a blank line, then "1, 3"
BlankApps == Query(TRUE, <<<<>>, <<Field("int", 1, 1), Field("int", 3, 1)>>>>)

\* the tool present, with a per-process query that fails or prints rows that
\* are not a pid and a number
AppsTools ==
    {Smi(Failed, Failed, q) :
        q \in {Failed, EmptyOut, MixedApps, JunkApps, BlankApps}}

Hosts ==
    {[cpu |-> Num(c),
      memory |-> [total |-> 8, available |-> 8 - u, percent |-> Rat(100 * u, 8),
                  used |-> u],
      disk |-> [total |-> 4, used |-> 1, free |-> 3, percent |-> Num(25)]] :
        c \in {0, 40}, u \in {2, 6}}

\* env of the get_system_stats calls
StatsCalls ==
    {[host |-> h, smi |-> smi] : h \in Hosts, smi \in SmiTools}
    \cup
    {[host |-> h, smi |-> smi] :
        h \in {x \in Hosts : x.cpu = Num(40) /\ x.memory.used = 2},
        smi \in StatsTools}

\* (pid, outcome) of the terminate_process calls
TerminateCalls ==
    {<<pid, o>> : pid \in {1, 2}, o \in {"ok", "NoSuchProcess", "AccessDenied"}}

SomeIo == <<[read_bytes |-> 1, write_bytes |-> 0]>>
NoIo == <<[read_bytes |-> 0, write_bytes |-> 0]>>

\* process tables that vary the I/O side: pid 1 with any counters, under any
\* name or vanishing; pid 2 idle on disk or denied its counters
IoTables ==
    {p1 \o p2 :
        p1 \in {<<>>, <<Vanished(1)>>}
               \cup {<<Reading(1, n, Num(2), Num(1), io)>> :
                        n \in Names, io \in IoReadings},
        p2 \in {<<>>}
               \cup {<<Reading(2, "python", Num(2), Num(1), io)>> :
                        io \in {None, NoIo}}}

\* process tables that vary the ranking side: the CPU and memory readings of
\* pids 1 and 2, and the same two processes in front of the crowd
RankTables ==
    {p1 \o p2 :
        p1 \in {<<>>}
               \cup {<<Reading(1, "python", cpu, mem, SomeIo)>> :
                        cpu \in {None, Num(3)}, mem \in {None, Num(2)}}
               \cup {<<Reading(1, n, Num(3), Num(2), SomeIo)>> :
                        n \in IdleNames},
        p2 \in {<<>>}
               \cup {<<Reading(2, "python", cpu, Num(1), None)>> :
                        cpu \in {None, Num(3)}}}
    \cup
    {p1 \o p2 \o Crowd :
        p1 \in {<<Reading(1, "python", None, Num(2), SomeIo)>>,
                <<Reading(1, "Idle", Num(3), Num(2), SomeIo)>>},
        p2 \in {<<Reading(2, "python", cpu, Num(1), None)>> :
                   cpu \in {None, Num(3)}}}

\* process tables of the passes that vary the GPU tool
GpuTables ==
    {p1 \o p2 :
        p1 \in {<<>>, <<Reading(1, "python", Num(2), Num(1), None)>>},
        p2 \in {<<>>, <<Reading(2, "python", Num(3), Num(1), None)>>}}

\* process tables of the passes that find the GPU tool failing
AppsTables ==
    {p1 \o p2 :
        p1 \in {<<>>, <<Reading(1, "python", Num(2), Num(1), SomeIo)>>},
        p2 \in {<<>>, <<Reading(2, "python", Num(3), Num(1), None)>>}}

\* the processes yielded before an enumeration raises
FailTables ==
    {p1 \o p2 :
        p1 \in {<<>>} \cup {<<Reading(1, "python", Num(2), Num(1), io)>> :
                               io \in {NoIo, SomeIo}},
        p2 \in {<<>>, <<Reading(2, "python", Num(2), Num(1), NoIo)>>}}

\* a machine with more than TopN processes, all of them at 0% CPU
IdleCrowd ==
    [i \in 1..TopN |-> Reading(i + 2, "svchost", Num(0), Num(1), None)]

\* process tables with ties between readings of 0 and missing readings
TieTables ==
    {<<Reading(1, "python", c1, Num(1), None),
       Reading(2, "python", c2, Num(1), None)>> \o IdleCrowd :
        c1 \in {None, Num(0)}, c2 \in {None, Num(0), Num(4)}}

SortBys == {"cpu", "memory", "disk", "gpu", "nonsense"}

Env(now, cores, smi, procs) ==
    [now |-> now, cores |-> cores, smi |-> smi, procs |-> procs,
     fails |-> FALSE]

\* the same environment with an enumeration that raises after env.procs
Failing(env) == [env EXCEPT !.fails = TRUE]

\* (sort_by, env) of the get_processes calls
ProcessCalls ==
    {<<"disk", Env(now, None, NoSmi, procs)>> :
        now \in Times, procs \in IoTables}
    \cup
    {<<sb, Env(MaxTime, <<2>>, NoSmi, procs)>> :
        sb \in SortBys, procs \in RankTables}
    \cup
    {<<sb, Env(MaxTime, cores, smi, procs)>> :
        sb \in {"cpu", "gpu"}, cores \in {None, <<2>>}, smi \in SmiTools,
        procs \in GpuTables}
    \cup
    {<<"gpu", Env(MaxTime, None, smi, procs)>> :
        smi \in AppsTools, procs \in AppsTables}
    \cup
    {<<"cpu", Env(MaxTime, None, NoSmi, procs)>> : procs \in TieTables}
    \cup
    {<<"disk", Failing(Env(now, None, NoSmi, procs))>> :
        now \in Times, procs \in FailTables}

\* -------------------------------------------------------------------- state
VARIABLES
    io_cache,   \* the closure variable io_cache of main(): pid -> [bytes, time]
    resp,       \* the response on its way to the frontend, or None
    threads,    \* the bridge's threads, each running one get_processes call
    start,      \* io_cache when the passes now under way began
    lapsed      \* history: the pids that had a cache entry when a completed
                \* pass did not observe them, and that no call observed since

vars == <<io_cache, resp, threads, start, lapsed>>

\* the readings a pass observes: enumerated, no idle placeholder, not skipped
Observed(env) ==
    {env.procs[i] : i \in {j \in DOMAIN env.procs :
        /\ ~env.procs[j].raises
        /\ env.procs[j].name \notin {"System Idle Process", "Idle"}}}
ObservedPids(env) == {r.pid : r \in Observed(env)}

Threads == {1, 2}

Idle ==
    [pc |-> "idle", sort_by |-> "cpu", env |-> Env(0, None, NoSmi, <<>>),
     i |-> 1, io_rate |-> Zero, processes |-> <<>>, ret |-> <<>>]

Init ==
    /\ io_cache = <<>>
    /\ resp = None
    /\ threads = [t \in Threads |-> Idle]
    /\ start = <<>>
    /\ lapsed = {}

\* get_processes(sort_by), called by the frontend over the bridge
GetProcesses ==
    /\ resp = None
    /\ \E c \in ProcessCalls :
          LET r == GetProcessesOf(io_cache, c[1], c[2])
              seen == ObservedPids(c[2])
          IN  /\ io_cache' = r.io_cache
              /\ resp' = <<[op |-> "get_processes", sort_by |-> c[1],
                            env |-> c[2], pre |-> io_cache, gone |-> lapsed,
                            raised |-> r.raised, ret |-> r.ret]>>
              /\ lapsed' = IF r.raised THEN lapsed \ seen
                           ELSE (lapsed \cup DOMAIN io_cache) \ seen
    /\ UNCHANGED <<threads, start>>

\* get_system_stats(), called by the frontend over the bridge
GetSystemStats ==
    /\ resp = None
    /\ \E env \in StatsCalls :
          resp' = <<[op |-> "get_system_stats", env |-> env, pre |-> io_cache,
                     ret |-> GetSystemStatsOf(env)]>>
    /\ UNCHANGED <<io_cache, threads, start, lapsed>>

\* terminate_process(pid), called by the frontend over the bridge
\* (variant: a terminated process's cache entry is dropped at once)
TerminateProcessM ==
    /\ resp = None
    /\ \E c \in TerminateCalls :
          /\ resp' = <<[op |-> "terminate_process", pid |-> c[1],
                        pre |-> io_cache,
                        ret |-> TerminateProcessOf(c[1], c[2])]>>
          /\ io_cache' = IF c[2] = "ok"
                         THEN [k \in DOMAIN io_cache \ {c[1]} |-> io_cache[k]]
                         ELSE io_cache
    /\ UNCHANGED <<threads, start, lapsed>>

TerminateProcess ==
    /\ resp = None
    /\ \E c \in TerminateCalls :
          resp' = <<[op |-> "terminate_process", pid |-> c[1],
                     pre |-> io_cache, ret |-> TerminateProcessOf(c[1], c[2])]>>
    /\ UNCHANGED <<io_cache, threads, start, lapsed>>

\* the frontend receives the response
Deliver ==
    /\ resp # None
    /\ resp' = None
    /\ UNCHANGED <<io_cache, threads, start, lapsed>>

Next == GetProcesses \/ GetSystemStats \/ TerminateProcess \/ Deliver

Spec == Init /\ [][Next]_vars

\* ------------------------------------------------------ concurrent passes
(***************************************************************************)
(* The same get_processes, called on two threads of the bridge at once.    *)
(* The function takes no lock, so the threads interleave between           *)
(* statements.  A step is one of: the call up to the loop (lines 132-156); *)
(* an iteration up to the rate, which reads io_cache (lines 159-181); the  *)
(* rest of the iteration, which writes io_cache (lines 183-191); the       *)
(* clean-up, sort and return (lines 195-209).  Every step taken as atomic  *)
(* here is a run of statements a thread can execute without being          *)
(* pre-empted, so each behaviour is one the program has.                   *)
(***************************************************************************)
\* process tables of the concurrent passes
ConcTables ==
    {p1 \o p2 :
        p1 \in {<<>>} \cup {<<Reading(1, "python", Num(2), Num(1), io)>> :
                               io \in {NoIo, SomeIo}},
        p2 \in {<<>>, <<Reading(2, "python", Num(2), Num(1), SomeIo)>>}}

ConcCalls ==
    {<<"disk", Env(now, None, NoSmi, procs)>> :
        now \in Times, procs \in ConcTables \ {<<>>}}

Running(t) == threads[t].pc \in {"loop", "write"}

\* lines 128-156: the call is entered and reads its environment
Call(t) ==
    /\ threads[t].pc = "idle"
    /\ \E c \in ConcCalls :
          threads' = [threads EXCEPT ![t] =
                        [Idle EXCEPT !.pc = "loop", !.sort_by = c[1],
                                     !.env = c[2]]]
    /\ start' = IF \A u \in Threads : threads[u].pc = "idle"
                THEN io_cache ELSE start
    /\ UNCHANGED <<io_cache, resp, lapsed>>

\* lines 159-181: the next process is read and its rate computed from the
\* cache as it is now
SampleRead(t) ==
    LET me == threads[t] IN
    /\ me.pc = "loop"
    /\ me.i <= Len(me.env.procs)
    /\ LET proc == me.env.procs[me.i] IN
       threads' = [threads EXCEPT ![t] =
          IF proc.raises \/ IsIdle(proc.name)
          THEN [me EXCEPT !.i = me.i + 1]
          ELSE [me EXCEPT !.pc = "write",
                   !.io_rate = IoRate(proc, io_cache, me.env.now).io_rate]]
    /\ UNCHANGED <<io_cache, resp, start, lapsed>>

\* lines 183-191: the cache entry is written and pinfo appended
SampleWrite(t) ==
    LET me == threads[t]
        proc == me.env.procs[me.i]
    IN  /\ me.pc = "write"
        /\ io_cache' = IoRate(proc, io_cache, me.env.now).cache
        /\ threads' = [threads EXCEPT ![t] =
              [me EXCEPT !.pc = "loop", !.i = me.i + 1,
                  !.processes =
                      Append(me.processes,
                             Pinfo(proc, me.io_rate, CpuCount(me.env.cores),
                                   GpuMap(me.env.smi)))]]
        /\ UNCHANGED <<resp, start, lapsed>>

\* lines 195-209: the clean-up, the sort and the return
Reconcile(t) ==
    LET me == threads[t] IN
    /\ me.pc = "loop"
    /\ me.i > Len(me.env.procs)
    /\ io_cache' = Prune(io_cache, CurrentPids(me.processes))
    /\ threads' = [threads EXCEPT ![t] =
          [me EXCEPT !.pc = "done",
              !.ret = Top(SortDesc(me.processes, 1, Len(me.processes), <<>>,
                                   SortKey(me.sort_by)))]]
    /\ UNCHANGED <<resp, start, lapsed>>

\* the frontend receives the responses of the finished calls
DeliverAll ==
    /\ \E t \in Threads : threads[t].pc = "done"
    /\ \A t \in Threads : ~Running(t)
    /\ threads' = [t \in Threads |-> Idle]
    /\ UNCHANGED <<io_cache, resp, start, lapsed>>

NextConc ==
    \/ \E t \in Threads :
          Call(t) \/ SampleRead(t) \/ SampleWrite(t) \/ Reconcile(t)
    \/ DeliverAll

SpecConc == Init /\ [][NextConc]_vars

\* ------------------------------------------------------------------- claims
\* a get_processes pass has just returned; Pass is its record: the sort key,
\* the environment it read, the cache it found (pre) and the list it returned
IsPass == resp # None /\ resp[1].op = "get_processes" /\ ~resp[1].raised
IsFailed == resp # None /\ resp[1].op = "get_processes" /\ resp[1].raised
IsTerminate == resp # None /\ resp[1].op = "terminate_process"
IsStats == resp # None /\ resp[1].op = "get_system_stats"
Pass == resp[1]

RetPids == {Pass.ret[i].pid : i \in DOMAIN Pass.ret}
TotalBytes(r) == r.io_counters[1].read_bytes + r.io_counters[1].write_bytes

\* C1: a pid with a cache entry, observed with I/O counters at a time later
\* than the entry's, is reported with the rate
\* (curr.bytes - prev.bytes) / (curr.time - prev.time), negative when the
\* counter went down.
C1_RateIsExactQuotient ==
    IsPass =>
      \A r \in Observed(Pass.env) : \A i \in DOMAIN Pass.ret :
        (/\ Pass.ret[i].pid = r.pid
         /\ r.io_counters # None
         /\ r.pid \in DOMAIN Pass.pre
         /\ Pass.env.now > Pass.pre[r.pid].time)
        => LET rate == Pass.ret[i].disk_io
           IN  /\ rate[2] > 0
               /\ rate[1] * (Pass.env.now - Pass.pre[r.pid].time)
                  = (TotalBytes(r) - Pass.pre[r.pid].bytes) * rate[2]

C1_Witness_NegativeRate ==
    /\ IsPass
    /\ \E r \in Observed(Pass.env) : \E i \in DOMAIN Pass.ret :
         /\ Pass.ret[i].pid = r.pid
         /\ r.io_counters # None
         /\ r.pid \in DOMAIN Pass.pre
         /\ Pass.env.now > Pass.pre[r.pid].time
         /\ TotalBytes(r) < Pass.pre[r.pid].bytes
         /\ Pass.ret[i].disk_io[1] < 0

\* C2 as stated: every pid observed without a cache entry is reported with
\* rate 0 and has, after the pass, a cache entry with the pass's byte count
\* and timestamp.
C2_FirstSightingAlwaysCached ==
    IsPass =>
      \A r \in Observed(Pass.env) :
        r.pid \notin DOMAIN Pass.pre =>
          /\ \A i \in DOMAIN Pass.ret :
                Pass.ret[i].pid = r.pid => Pass.ret[i].disk_io = Zero
          /\ r.pid \in DOMAIN io_cache
          /\ io_cache[r.pid].time = Pass.env.now
          /\ r.io_counters # None => io_cache[r.pid].bytes = TotalBytes(r)

\* C2 amended: a pid observed without a cache entry is reported with rate 0;
\* when it is observed with I/O counters the cache afterwards holds exactly
\* the pass's byte count and timestamp for it, and when it is observed
\* without I/O counters the cache afterwards holds no entry for it.
C2_FirstSighting ==
    IsPass =>
      \A r \in Observed(Pass.env) :
        r.pid \notin DOMAIN Pass.pre =>
          /\ \A i \in DOMAIN Pass.ret :
                Pass.ret[i].pid = r.pid => Pass.ret[i].disk_io = Zero
          /\ IF r.io_counters # None
             THEN /\ r.pid \in DOMAIN io_cache
                  /\ io_cache[r.pid]
                     = [bytes |-> TotalBytes(r), time |-> Pass.env.now]
             ELSE r.pid \notin DOMAIN io_cache

C2_Witness_FirstSighting ==
    /\ IsPass
    /\ \E r \in Observed(Pass.env) :
         /\ r.pid \notin DOMAIN Pass.pre
         /\ r.io_counters # None
         /\ TotalBytes(r) > 0
         /\ Pass.env.now > 0
         /\ r.pid \in RetPids
         /\ r.pid \in DOMAIN io_cache

\* C3: a pid with a cache entry observed at a time not later than the
\* entry's is reported with rate 0, whatever the byte counts.
C3_NoRateWithoutElapsedTime ==
    IsPass =>
      \A r \in Observed(Pass.env) : \A i \in DOMAIN Pass.ret :
        (/\ Pass.ret[i].pid = r.pid
         /\ r.pid \in DOMAIN Pass.pre
         /\ Pass.env.now <= Pass.pre[r.pid].time)
        => Pass.ret[i].disk_io = Zero

C3_Witness_ClockWentBack ==
    /\ IsPass
    /\ \E r \in Observed(Pass.env) : \E i \in DOMAIN Pass.ret :
         /\ Pass.ret[i].pid = r.pid
         /\ r.pid \in DOMAIN Pass.pre
         /\ r.io_counters # None
         /\ Pass.env.now < Pass.pre[r.pid].time
         /\ TotalBytes(r) # Pass.pre[r.pid].bytes
         /\ Pass.ret[i].disk_io = Zero

\* C4 as stated: after a pass the cache's pids are a subset of the pids of
\* the returned list, for any number of live processes.
C4_CacheWithinReturned == IsPass => DOMAIN io_cache \subseteq RetPids

\* C4 amended: after a pass the cache's pids are a subset of the pids the
\* pass observed (before the truncation to 50), and a subset of the pids of
\* the returned list whenever the pass observed at most 50 processes.
C4_CacheWithinObserved ==
    IsPass =>
      /\ DOMAIN io_cache \subseteq ObservedPids(Pass.env)
      /\ Cardinality(ObservedPids(Pass.env)) <= TopN
            => DOMAIN io_cache \subseteq RetPids

C4_Witness_CachedButCutOff ==
    /\ IsPass
    /\ Cardinality(ObservedPids(Pass.env)) > TopN
    /\ \E k \in DOMAIN io_cache : k \notin RetPids

\* C5: at the end of a pass a cache entry is removed if and only if its pid
\* was not observed in the pass; an observed pid's entry stays also when the
\* process is cut off by the truncation.
C5_EvictedIffUnobserved ==
    IsPass =>
      \A k \in DOMAIN Pass.pre :
        k \in DOMAIN io_cache <=> k \in ObservedPids(Pass.env)

C5_Witness_KeptCutOffAndEvicted ==
    /\ IsPass
    /\ \E k \in DOMAIN Pass.pre :
         k \in DOMAIN io_cache /\ k \notin RetPids
    /\ \E k \in DOMAIN Pass.pre :
         k \notin DOMAIN io_cache /\ k \notin ObservedPids(Pass.env)
    /\ \E k \in DOMAIN Pass.pre :
         k \notin DOMAIN io_cache /\ k \in {r.pid : r \in
                {Pass.env.procs[i] : i \in DOMAIN Pass.env.procs}}

\* the sampled entries of the pass in enumeration order, before the sort
Sampled ==
    Enumerate(Pass.env.procs, 1, Len(Pass.env.procs),
              [processes |-> <<>>, cache |-> Pass.pre], Pass.env.now,
              CpuCount(Pass.env.cores), GpuMap(Pass.env.smi)).processes
\* the field a sort key selects, and an entry's value in it with None as 0
Selected(sort_by) ==
    CASE sort_by = "memory" -> "memory_percent"
      [] sort_by = "disk" -> "disk_io"
      [] sort_by = "gpu" -> "gpu_memory"
      [] OTHER -> "cpu_percent"
ValueIn(e, f) == IF e[f] = None THEN Zero ELSE e[f]
Range(s) == {s[i] : i \in DOMAIN s}

\* C6: the returned list has at most 50 entries, is in non-increasing order
\* of the selected field with None counted as 0, and holds the first 50 of
\* the sorted sample: as many entries as were sampled up to 50, each of them
\* sampled, and no sampled entry left out has a larger value than one kept.
C6_Top50Descending ==
    IsPass =>
      LET ret == Pass.ret
          f == Selected(Pass.sort_by)
      IN  /\ Len(ret) <= TopN
          /\ \A i \in 1..(Len(ret) - 1) :
                ~Less(ValueIn(ret[i], f), ValueIn(ret[i + 1], f))
          /\ Len(ret) = IF Len(Sampled) < TopN THEN Len(Sampled) ELSE TopN
          /\ Range(ret) \subseteq Range(Sampled)
          /\ \A e \in Range(Sampled) \ Range(ret) : \A i \in DOMAIN ret :
                ~Less(ValueIn(ret[i], f), ValueIn(e, f))

C6_Witness_CutAndNoneAsZero ==
    /\ IsPass
    /\ Len(Sampled) > TopN
    /\ Len(Pass.ret) = TopN
    /\ Pass.ret[1].cpu_percent # Pass.ret[TopN].cpu_percent
    /\ \E e \in Range(Sampled) \ Range(Pass.ret) :
          e[Selected(Pass.sort_by)] = None

\* C8: a call with a sort key outside {cpu, memory, disk, gpu} returns the
\* list and leaves the cache that get_processes('cpu') returns and leaves
\* from the same cache on the same readings.
C8_UnknownKeyIsCpu ==
    (IsPass /\ Pass.sort_by \notin {"cpu", "memory", "disk", "gpu"}) =>
      LET cpu == GetProcessesOf(Pass.pre, "cpu", Pass.env)
      IN  Pass.ret = cpu.ret /\ io_cache = cpu.io_cache

C8_Witness_UnknownKey ==
    /\ IsPass
    /\ Pass.sort_by = "nonsense"
    /\ Len(Pass.ret) >= 2
    /\ Pass.ret # GetProcessesOf(Pass.pre, "memory", Pass.env).ret
    /\ Pass.ret # GetProcessesOf(Pass.pre, "disk", Pass.env).ret
    /\ io_cache # <<>>

\* C9: no entry named 'System Idle Process' or 'Idle' is in the returned
\* list, and such a process neither creates nor refreshes a cache entry: an
\* entry under its pid after the pass is the entry from before the pass.
C9_IdleNeverSampled ==
    IsPass =>
      /\ \A i \in DOMAIN Pass.ret :
            Pass.ret[i].name \notin {"System Idle Process", "Idle"}
      /\ \A j \in DOMAIN Pass.env.procs :
            LET r == Pass.env.procs[j]
            IN  (r.name \in {"System Idle Process", "Idle"}
                 /\ r.pid \in DOMAIN io_cache)
                => (r.pid \in DOMAIN Pass.pre
                    /\ io_cache[r.pid] = Pass.pre[r.pid])

C9_Witness_BusyIdle ==
    /\ IsPass
    /\ \E j \in DOMAIN Pass.env.procs :
         LET r == Pass.env.procs[j]
         IN  /\ r.name = "System Idle Process"
             /\ r.cpu_percent # None /\ r.cpu_percent # Zero
             /\ r.io_counters # None
             /\ r.pid \in DOMAIN Pass.pre
    /\ Pass.ret # <<>>

\* C10: with the GPU tool not on the PATH, get_system_stats returns the gpu
\* record {percent: 0, name: "N/A", memory: {used: 0, total: 0}} and every
\* entry get_processes returns has gpu_memory 0.
C10_NoToolNoGpu ==
    /\ (IsStats /\ ~resp[1].env.smi.present) =>
          resp[1].ret.gpu = [percent |-> <<0, 1>>, name |-> "N/A",
                             memory |-> [used |-> <<0, 1>>,
                                         total |-> <<0, 1>>]]
    /\ (IsPass /\ ~Pass.env.smi.present) =>
          \A i \in DOMAIN Pass.ret : Pass.ret[i].gpu_memory = <<0, 1>>

C10_Witness_NoTool ==
    /\ IsPass
    /\ ~Pass.env.smi.present
    /\ Len(Pass.ret) >= 2
    /\ Pass.sort_by = "gpu"

\* the outcome of the pass of thread t followed by the pass of thread u,
\* both run one after the other from the cache `start`
Serial(t, u) ==
    LET first == GetProcessesOf(start, threads[t].sort_by, threads[t].env)
        second == GetProcessesOf(first.io_cache, threads[u].sort_by,
                                 threads[u].env)
    IN  [cache |-> second.io_cache, ret |-> [x \in {t, u} |->
            IF x = t THEN first.ret ELSE second.ret]]

\* C7: two concurrent passes are serialized on the cache: when both have
\* returned, the cache and the two returned lists are those of the two
\* passes run one after the other, in one order or the other.
C7_PassesSerialized ==
    (\A t \in Threads : threads[t].pc = "done") =>
      \E t \in Threads : \E u \in Threads \ {t} :
        /\ io_cache = Serial(t, u).cache
        /\ \A x \in Threads : threads[x].ret = Serial(t, u).ret[x]

\* --------------------------------------------------- claims on the GPU tool
\* the rows of a per-process query that are a pid and a number, and the last
\* such row of a pid
GoodAppsRow(row) ==
    Len(row) = 2 /\ row[1].kind = "int" /\ row[2].kind \in {"int", "dec"}
GoodAppsRows(q) == {i \in DOMAIN q.lines : GoodAppsRow(q.lines[i])}
RowsOf(q, pid) == {i \in GoodAppsRows(q) : q.lines[i][1].val = <<pid, 1>>}
LastRowOf(q, pid) ==
    CHOOSE i \in RowsOf(q, pid) : \A j \in RowsOf(q, pid) : j <= i
\* a per-process output with a row that is not blank and not a pid and a number
MalformedApps(q) ==
    q.ok /\ \E i \in DOMAIN q.lines :
                q.lines[i] # <<>> /\ ~GoodAppsRow(q.lines[i])
\* the first row of the stats output, and whether it is three numbers
FirstStats(q) == IF q.lines = <<>> THEN <<>> ELSE q.lines[1]
NumericRow(row) == \A i \in DOMAIN row : row[i].kind \in {"int", "dec"}
MalformedStats(q) ==
    q.ok /\ (Len(FirstStats(q)) # 3 \/ ~NumericRow(FirstStats(q)))
TheDefault ==
    [percent |-> <<0, 1>>, name |-> "N/A",
     memory |-> [used |-> <<0, 1>>, total |-> <<0, 1>>]]
\* the call of the record c, whatever its outcome
IsCall(op) == resp # None /\ resp[1].op = op
\* the entry e with its gpu_memory left out
Bare(e) == [f \in DOMAIN e \ {"gpu_memory"} |-> e[f]]

\* C11: with the GPU tool present and its invocation failing or its output
\* malformed, get_system_stats returns the system record with the host's
\* readings, and get_processes returns: it raises nothing, leaves the cache
\* that the same call leaves with the tool absent, and returns the same
\* processes, alike in every field but gpu_memory.
C11_ProbeFailureContained ==
    /\ (IsCall("get_system_stats") /\ resp[1].env.smi.present
        /\ (~resp[1].env.smi.name.ok \/ ~resp[1].env.smi.stats.ok
            \/ MalformedStats(resp[1].env.smi.stats)))
       => /\ resp[1].ret.cpu = resp[1].env.host.cpu
          /\ resp[1].ret.memory.used = resp[1].env.host.memory.used
          /\ resp[1].ret.disk.free = resp[1].env.host.disk.free
          /\ DOMAIN resp[1].ret = {"cpu", "memory", "disk", "gpu"}
    /\ (IsCall("get_processes") /\ ~resp[1].env.fails
        /\ resp[1].env.smi.present
        /\ (~resp[1].env.smi.apps.ok \/ MalformedApps(resp[1].env.smi.apps)))
       => LET absent == GetProcessesOf(resp[1].pre, resp[1].sort_by,
                                       [resp[1].env EXCEPT !.smi = NoSmi])
          IN  /\ ~resp[1].raised
              /\ io_cache = absent.io_cache
              /\ {Bare(resp[1].ret[i]) : i \in DOMAIN resp[1].ret}
                 = {Bare(absent.ret[i]) : i \in DOMAIN absent.ret}
              /\ ~resp[1].env.smi.apps.ok => resp[1].ret = absent.ret

C11_Witness_FailedInvocation ==
    /\ IsPass
    /\ Pass.env.smi.present
    /\ ~Pass.env.smi.apps.ok
    /\ Pass.ret # <<>>
    /\ \E k \in DOMAIN io_cache : k \notin DOMAIN Pass.pre
    /\ \E k \in DOMAIN Pass.pre : k \notin DOMAIN io_cache

\* C12 as stated: with the tool present and its output malformed (a row with
\* the wrong column count or a non-numeric field), the gpu record is the
\* default and every returned process has gpu_memory 0.
C12_MalformedIsDefault ==
    /\ (IsStats /\ resp[1].env.smi.present /\ resp[1].env.smi.name.ok
        /\ MalformedStats(resp[1].env.smi.stats))
       => resp[1].ret.gpu = TheDefault
    /\ (IsPass /\ Pass.env.smi.present /\ MalformedApps(Pass.env.smi.apps))
       => \A i \in DOMAIN Pass.ret : Pass.ret[i].gpu_memory = <<0, 1>>

\* C12 amended: the gpu record is the default when the first row of the
\* stats output has a non-numeric field or fewer than three columns; in the
\* per-process output a malformed row is skipped, so that a returned process
\* has gpu_memory 0 unless a row that is a pid and a number names its pid.
C12_MalformedRowSkipped ==
    /\ (IsStats /\ resp[1].env.smi.present /\ resp[1].env.smi.name.ok
        /\ resp[1].env.smi.stats.ok
        /\ (Len(FirstStats(resp[1].env.smi.stats)) < 3
            \/ ~NumericRow(FirstStats(resp[1].env.smi.stats))))
       => resp[1].ret.gpu = TheDefault
    /\ (IsPass /\ Pass.env.smi.present /\ MalformedApps(Pass.env.smi.apps))
       => \A i \in DOMAIN Pass.ret :
             RowsOf(Pass.env.smi.apps, Pass.ret[i].pid) = {}
                => Pass.ret[i].gpu_memory = <<0, 1>>

C12_Witness_RowSkippedRowKept ==
    /\ IsPass
    /\ Pass.env.smi.present
    /\ MalformedApps(Pass.env.smi.apps)
    /\ \E i \in DOMAIN Pass.ret :
         /\ Pass.ret[i].gpu_memory = <<0, 1>>
         /\ \E j \in DOMAIN Pass.env.smi.apps.lines :
               LET row == Pass.env.smi.apps.lines[j]
               IN  Len(row) = 3 /\ row[1].val = <<Pass.ret[i].pid, 1>>
    /\ \E i \in DOMAIN Pass.ret : Pass.ret[i].gpu_memory # <<0, 1>>

\* C13: every GPU memory value returned is in bytes, the tool's megabyte
\* reading times 1024*1024: memory.total and memory.used of a gpu record read
\* from the tool, and the gpu_memory of every returned process whose pid the
\* per-process output names.
C13_GpuMemoryInBytes ==
    /\ (IsStats /\ resp[1].ret.gpu # TheDefault)
       => LET row == FirstStats(resp[1].env.smi.stats)
              mem == resp[1].ret.gpu.memory
          IN  /\ mem.total[1] * row[2].val[2]
                 = row[2].val[1] * 1048576 * mem.total[2]
              /\ mem.used[1] * row[3].val[2]
                 = row[3].val[1] * 1048576 * mem.used[2]
    /\ (IsPass /\ Pass.env.smi.present /\ Pass.env.smi.apps.ok)
       => \A i \in DOMAIN Pass.ret :
             RowsOf(Pass.env.smi.apps, Pass.ret[i].pid) # {}
             => LET mb == Pass.env.smi.apps.lines[
                            LastRowOf(Pass.env.smi.apps, Pass.ret[i].pid)][2].val
                    got == Pass.ret[i].gpu_memory
                IN  got[1] * mb[2] = mb[1] * 1048576 * got[2]

\* ------------------------------------------------- claims on failing reads
\* the process table without the processes whose details cannot be read
Readable(procs) == SelectSeq(procs, LAMBDA r : ~r.raises)
Unreadable(procs) == {procs[j].pid : j \in {k \in DOMAIN procs : procs[k].raises}}

\* C14: a pass that meets a process whose details cannot be read
\* (NoSuchProcess, AccessDenied, ZombieProcess) does not fail; it returns the
\* list and leaves the cache of the same pass over the process table without
\* that process, the process is not in the list, and the cache afterwards
\* holds no entry for it.
C14_UnreadableSkipped ==
    (IsCall("get_processes") /\ ~resp[1].env.fails
     /\ Unreadable(resp[1].env.procs) # {})
    => LET without ==
              GetProcessesOf(resp[1].pre, resp[1].sort_by,
                  [resp[1].env EXCEPT !.procs = Readable(resp[1].env.procs)])
       IN  /\ ~resp[1].raised
           /\ resp[1].ret = without.ret
           /\ io_cache = without.io_cache
           /\ \A k \in Unreadable(resp[1].env.procs) :
                 /\ k \notin DOMAIN io_cache
                 /\ \A i \in DOMAIN resp[1].ret : resp[1].ret[i].pid # k

C14_Witness_CachedThenUnreadable ==
    /\ IsPass
    /\ \E k \in Unreadable(Pass.env.procs) : k \in DOMAIN Pass.pre
    /\ Pass.ret # <<>>
    /\ io_cache # <<>>

\* C15: a get_processes call that raises part-way through its enumeration
\* leaves the cache as it found it.
C15_FailedPassAtomic == IsFailed => io_cache = resp[1].pre

\* C16 as stated: a pass overwrites the entry of every observed pid that has
\* one with the pass's byte count and timestamp, and after a pass every cache
\* entry carries the timestamp of that pass.
C16_EveryEntryFresh ==
    IsPass =>
      /\ \A r \in Observed(Pass.env) :
            r.pid \in DOMAIN Pass.pre =>
              /\ r.pid \in DOMAIN io_cache
              /\ io_cache[r.pid].time = Pass.env.now
              /\ r.io_counters # None =>
                    io_cache[r.pid].bytes = TotalBytes(r)
      /\ \A k \in DOMAIN io_cache : io_cache[k].time = Pass.env.now

\* C16 amended: a pass overwrites the entry of every pid it observes with
\* I/O counters with the pass's byte count and timestamp, and leaves the
\* entry of a pid it observes without I/O counters as it was; after a pass
\* every cache entry is of one of these two kinds.
C16_EntryFreshOrKept ==
    IsPass =>
      /\ \A r \in Observed(Pass.env) :
            r.pid \in DOMAIN Pass.pre =>
              /\ r.pid \in DOMAIN io_cache
              /\ io_cache[r.pid] =
                    IF r.io_counters # None
                    THEN [bytes |-> TotalBytes(r), time |-> Pass.env.now]
                    ELSE Pass.pre[r.pid]
      /\ \A k \in DOMAIN io_cache :
            \E r \in Observed(Pass.env) :
               /\ r.pid = k
               /\ IF r.io_counters # None
                  THEN io_cache[k].time = Pass.env.now
                  ELSE k \in DOMAIN Pass.pre /\ io_cache[k] = Pass.pre[k]

C16_Witness_FreshAndStale ==
    /\ IsPass
    /\ \E r \in Observed(Pass.env) :
         /\ r.io_counters = None
         /\ r.pid \in DOMAIN io_cache
         /\ io_cache[r.pid].time # Pass.env.now
    /\ \E r \in Observed(Pass.env) :
         /\ r.io_counters # None
         /\ r.pid \in DOMAIN Pass.pre
         /\ Pass.pre[r.pid] # io_cache[r.pid]
         /\ Pass.pre[r.pid].time >= Pass.env.now

\* -------------------------------------------- claims on the other handlers
\* C17: get_system_stats and terminate_process leave the cache as they found
\* it, so that any number of them between two passes leaves the later pass
\* the cache of the earlier one, and with it the rates.
C17_OtherCallsKeepCache ==
    (IsStats \/ IsTerminate) => io_cache = resp[1].pre

C17_Witness_TerminateCached ==
    /\ IsTerminate
    /\ resp[1].ret.success
    /\ resp[1].pid \in DOMAIN io_cache
    /\ io_cache[resp[1].pid].bytes > 0

\* C18: a pid that had a cache entry when a completed pass did not observe
\* it, observed again for the first time since, is reported with rate 0
\* whatever its byte counts and the time.
C18_ReappearanceHasNoRate ==
    IsPass =>
      \A r \in Observed(Pass.env) : \A i \in DOMAIN Pass.ret :
        (Pass.ret[i].pid = r.pid /\ r.pid \in Pass.gone)
        => Pass.ret[i].disk_io = <<0, 1>>

C18_Witness_Reappeared ==
    /\ IsPass
    /\ \E r \in Observed(Pass.env) : \E i \in DOMAIN Pass.ret :
         /\ Pass.ret[i].pid = r.pid
         /\ r.pid \in Pass.gone
         /\ r.io_counters # None
         /\ TotalBytes(r) = 0
         /\ Pass.env.now = MaxTime
         /\ Pass.ret[i].disk_io = <<0, 1>>

\* the place of a pid in the enumeration of the pass
PlaceOf(pid) ==
    CHOOSE j \in DOMAIN Pass.env.procs : Pass.env.procs[j].pid = pid

\* C19: the returned list is in non-increasing order of the selected field
\* (None counted as 0) and two neighbours of equal value are in the order of
\* their enumeration, so that all entries of equal value are; an entry cut
\* off by the truncation was enumerated after every returned entry of equal
\* value.
C19_TiesKeepEnumerationOrder ==
    IsPass =>
      LET ret == Pass.ret
          f == Selected(Pass.sort_by)
      IN  /\ \A i \in 1..(Len(ret) - 1) :
                /\ ~Less(ValueIn(ret[i], f), ValueIn(ret[i + 1], f))
                /\ ValueIn(ret[i], f) = ValueIn(ret[i + 1], f)
                   => PlaceOf(ret[i].pid) < PlaceOf(ret[i + 1].pid)
          /\ Len(ret) = TopN =>
                \A e \in Range(Sampled) \ Range(ret) : \A i \in DOMAIN ret :
                   ValueIn(e, f) = ValueIn(ret[i], f)
                   => PlaceOf(ret[i].pid) < PlaceOf(e.pid)

C19_Witness_TieCutOff ==
    /\ IsPass
    /\ Pass.sort_by = "cpu"
    /\ Len(Pass.ret) = TopN
    /\ \E e \in Range(Sampled) \ Range(Pass.ret) :
          ValueIn(e, "cpu_percent") = ValueIn(Pass.ret[TopN], "cpu_percent")
    /\ \E i \in DOMAIN Pass.ret : \E j \in DOMAIN Pass.ret :
          /\ i < j
          /\ Pass.ret[i].cpu_percent = None
          /\ Pass.ret[j].cpu_percent = <<0, 1>>
    /\ Pass.ret[1].cpu_percent = <<4, 1>>
    /\ Pass.ret[1].pid = 2

\* C20: the gpu record of get_system_stats is either the default, or has its
\* name from the first line of the name output and its percent, memory.total
\* and memory.used from the first row of the stats output of the same call.
C20_GpuRecordAllOrNothing ==
    IsStats =>
      LET smi == resp[1].env.smi
          gpu == resp[1].ret.gpu
          row == FirstStats(smi.stats)
      IN  \/ gpu = TheDefault
          \/ /\ smi.present /\ smi.name.ok /\ smi.stats.ok
             /\ Len(row) >= 3 /\ NumericRow(row)
             /\ gpu.name = IF smi.name.lines = <<>> THEN ""
                           ELSE smi.name.lines[1]
             /\ gpu.percent = row[1].val
             /\ gpu.memory.total[1] * row[2].val[2]
                = row[2].val[1] * 1048576 * gpu.memory.total[2]
             /\ gpu.memory.used[1] * row[3].val[2]
                = row[3].val[1] * 1048576 * gpu.memory.used[2]

C20_Witness_NameThenBadStats ==
    /\ IsStats
    /\ resp[1].env.smi.present
    /\ resp[1].env.smi.name.ok
    /\ resp[1].env.smi.name.lines # <<>>
    /\ resp[1].env.smi.stats.ok
    /\ ~NumericRow(FirstStats(resp[1].env.smi.stats))
    /\ resp[1].ret.gpu = TheDefault
=============================================================================
